---- MODULE Spec2Model ----
(***************************************************************************)
(* McpClient<T: Transport> (src/src/client.rs): the request-correlation    *)
(* engine of the MCP client.  One background dispatch task receives        *)
(* JsonRpcResponse frames from the transport and routes each to the        *)
(* oneshot sender registered under its id; any number of caller tasks run  *)
(* the facade operations (list_tools, initialize, shutdown), each built on *)
(* the private request().                                                  *)
(*                                                                         *)
(* Every caller task runs one facade operation; the tasks are numbered in  *)
(* the order in which they start.  The transport is the abstract Transport *)
(* trait: send and close return Ok or Err, receive yields whatever the     *)
(* peer put on the stream.  An Option<X> of the source is a sequence of    *)
(* length at most one: None is <<>>, Some(x) is <<x>>.                     *)
(*                                                                         *)
(* The registry mutex is held for one insert by request() and for the      *)
(* remove-and-send of one frame by the dispatch task, never across an      *)
(* await of I/O, so each critical section is one atomic step.              *)
(***************************************************************************)
EXTENDS Integers, Sequences, FiniteSets, TLC

\* Number of caller tasks; each performs one facade operation, so this is
\* also the number of requests and of ids that are allocated.
NumCallers == 2

Callers == 1..NumCallers

\* Number of tasks that call the StdioTransport directly, each one send() or
\* one close().
NumTasks == 3

Tasks == 1..NumTasks

\* Length of the body of a frame, in writes to the pipe (write_all may need
\* several); the newline is one more.
BodyLen == 2

\* How many unread bytes the pipe to the child holds before a write blocks.
PipeCap == 2

VARIABLES
    next_id,           \* McpClient.next_id (AtomicI64)
    pending_requests,  \* McpClient.pending_requests: id -> oneshot sender,
                       \* a sender being named by the caller that awaits it
    dpc,               \* the dispatch task: "receive" (in its loop) or "stopped"
    pc,                \* per caller: position in its facade operation
    op,                \* per caller: the facade operation it runs
    id,                \* per caller: the id its request() allocated
    chan,              \* per caller: the oneshot channel of its request()
    req_result,        \* per caller: what request() returned (Option)
    close_result,      \* per caller: what transport.close() returned (Option)
    out,               \* per caller: what the facade operation returned (Option)
    response,          \* history, per caller: the local `response` of request(),
                       \* what rx.await yielded (Option)
    calls,             \* history, per caller: the calls it has made on the
                       \* transport, in order, each with whether it returned Ok
    writer,            \* StdioTransport.writer (Mutex): the task holding it, 0 when free
    stdin,             \* the bytes written to the child's stdin so far
    unread,            \* how many of them the child has not read yet (they fill the pipe)
    stdin_open,        \* the child's stdin has not been shut down
    child_lock,        \* StdioTransport.child (Mutex): the task holding it, 0 when free
    child,             \* the child process: "running", "exited", "reaped"
    tpc,               \* per transport task: position in its send() or close()
    top,               \* per transport task: the method it runs
    widx,              \* per transport task: the next byte of its frame to write
    tres               \* per transport task: what the method returned (Option)

\* The history variables are written by the recording steps of HistSpec
\* only; they record what a caller's locals held and what it asked of the
\* transport, and no step reads them.
histVars == <<response, calls>>

clientVars == <<next_id, pending_requests, dpc,
                pc, op, id, chan, req_result, close_result, out, histVars>>

transportVars == <<writer, stdin, unread, stdin_open, child_lock, child,
                   tpc, top, widx, tres>>

vars == <<clientVars, transportVars>>

callerVars == <<pc, op, id, req_result, close_result, out>>

None == <<>>
Some(x) == <<x>>

(***************************************************************************)
(* Wire data (src/src/types.rs)                                            *)
(***************************************************************************)

\* JSON values a response can carry as its result: a well-formed tools/list
\* result (an absent result reaches the caller as Null, of another shape).
Values == {"vTools"}

\* A JSON value used as an id: an integer that fits i64, or a string.  The
\* ids 1..NumCallers are those the client allocates.
I64Ids == [t : {"i64"}, v : 1..NumCallers]
OtherIds == {[t |-> "i64", v |-> NumCallers + 1], [t |-> "str", v |-> 1]}

JsonRpcError == [code : {-32601}, message : {"method not found"}]

OptionOf(S) == {None} \cup {Some(x) : x \in S}

\* The responses the peer sends: with an id the client allocates, every
\* combination of result and error present or absent; with an i64 id it
\* never allocates, a string id or none, a plain result.
JsonRpcResponse ==
    [id : {Some(v) : v \in I64Ids}, result : OptionOf(Values),
     error : OptionOf(JsonRpcError)]
    \cup [id : {None} \cup {Some(v) : v \in OtherIds}, result : {Some(x) : x \in Values},
          error : {None}]

\* What Transport::receive returns: a decoded response, or an error (EOF or
\* an I/O error, a line that does not parse as a JsonRpcResponse).
ReceiveErrors == {"eof", "parse"}
ReceiveResults ==
    [ok : {TRUE}, msg : JsonRpcResponse] \cup [ok : {FALSE}, err : ReceiveErrors]

\* serde_json::Value::as_i64
as_i64(v) == IF v.t = "i64" THEN Some(v.v) ELSE None

(***************************************************************************)
(* Result<Value> of request() and of the facade operations                 *)
(***************************************************************************)
Ok(v) == [tag |-> "Ok", val |-> v]
Err(e) == [tag |-> "Err", err |-> e]

SendError == [kind |-> "send"]              \* transport.send(..) returned Err
CloseError == [kind |-> "close"]            \* transport.close() returned Err
RecvError == [kind |-> "recv"]              \* the oneshot sender was dropped
RpcError(e) == [kind |-> "rpc", code |-> e.code, message |-> e.message]
ParseError == [kind |-> "parse"]            \* serde_json::from_value failed
CombinedError(e, c) == [kind |-> "combined", request |-> e, close |-> c]

FirstId == 1

Init ==
    /\ next_id = FirstId
    /\ pending_requests = << >>
    /\ dpc = "receive"
    /\ pc = [c \in Callers |-> "idle"]
    /\ op = [c \in Callers |-> "none"]
    /\ id = [c \in Callers |-> 0]
    /\ chan = [c \in Callers |-> [st |-> "none", val |-> None]]
    /\ req_result = [c \in Callers |-> None]
    /\ close_result = [c \in Callers |-> None]
    /\ out = [c \in Callers |-> None]
    /\ response = [c \in Callers |-> None]
    /\ calls = [c \in Callers |-> << >>]
    /\ writer = 0
    /\ stdin = << >>
    /\ unread = 0
    /\ stdin_open = TRUE
    /\ child_lock = 0
    /\ child = "running"
    /\ tpc = [t \in Tasks |-> "idle"]
    /\ top = [t \in Tasks |-> "none"]
    /\ widx = [t \in Tasks |-> 1]
    /\ tres = [t \in Tasks |-> None]

(***************************************************************************)
(* The registry: HashMap<i64, oneshot::Sender<JsonRpcResponse>>            *)
(***************************************************************************)

\* Mutant of Insert: the sender is not registered (the insert is missing, or
\* comes only after the send).
InsertNothing(m, k, s) == m

\* HashMap::insert: the map afterwards (an entry already under k is replaced).
Insert(m, k, s) == [j \in (DOMAIN m) \cup {k} |-> IF j = k THEN s ELSE m[j]]

\* Mutant of Without: the entry is looked up but left in the map (get for
\* remove).
WithoutNothing(m, k) == m

\* Mutant of Removed: the sender registered first is taken, whatever the id
\* (matching by order of arrival).
RemovedOldest(m, k) ==
    IF k \in DOMAIN m
      THEN Some(m[CHOOSE j \in DOMAIN m : \A i \in DOMAIN m : j <= i])
      ELSE None

\* HashMap::remove: the value it returns ...
Removed(m, k) == IF k \in DOMAIN m THEN Some(m[k]) ELSE None

\* ... and the map afterwards.
Without(m, k) == [j \in (DOMAIN m) \ {k} |-> m[j]]

(***************************************************************************)
(* oneshot channel of one request(): st is "none" before it is created,    *)
(* "open" while the sender is alive and has sent nothing, "sent" once the  *)
(* sender has sent, "dropped" when the sender was dropped without sending, *)
(* "rx_dropped" when the receiver was dropped first, "taken" once rx.await *)
(* has taken the value.                                                    *)
(***************************************************************************)
NewChannel == [st |-> "open", val |-> None]

\* oneshot::Sender::send; it fails, and the caller ignores that, when the
\* receiver is gone.
OneshotSend(ch, msg) ==
    IF ch.st = "open" THEN [st |-> "sent", val |-> Some(msg)] ELSE ch

\* Dropping a sender that has not sent.
OneshotDropSender(ch) ==
    IF ch.st = "open" THEN [st |-> "dropped", val |-> None] ELSE ch

\* Dropping the receiver.
OneshotDropReceiver(ch) == [st |-> "rx_dropped", val |-> None]

\* rx.await has completed: the channel is used up.
OneshotTaken(ch) == [st |-> "taken", val |-> None]

(***************************************************************************)
(* The dispatch task spawned by McpClient::new                             *)
(***************************************************************************)

\* The registry key of a response: response.id as an i64, when it is one.
DispatchKey(msg) == IF msg.id = None THEN None ELSE as_i64(msg.id[1])

\* Mutant of LoopAfter: a response that finds no sender is treated like a
\* receive error and ends the loop.
LoopAfterStrict(r) ==
    IF r.ok /\ DispatchKey(r.msg) # None
            /\ DispatchKey(r.msg)[1] \in DOMAIN pending_requests
      THEN "receive" ELSE "stopped"

\* Mutant of LoopAfter: a line that does not parse is skipped; only EOF and
\* I/O errors end the loop.
LoopAfterSkipMalformed(r) == IF r.ok \/ r.err = "parse" THEN "receive" ELSE "stopped"

\* Mutant of LoopAfter: a send to a receiver that is gone ends the loop
\* (`sender.send(response).unwrap()` for `let _ = sender.send(response)`).
LoopAfterSendChecked(r) ==
    IF ~r.ok THEN "stopped"
    ELSE IF /\ DispatchKey(r.msg) # None
            /\ DispatchKey(r.msg)[1] \in DOMAIN pending_requests
            /\ chan[pending_requests[DispatchKey(r.msg)[1]]].st = "rx_dropped"
           THEN "stopped"
           ELSE "receive"

\* The match on what receive returned: Ok goes round the loop, whether or
\* not the response found a sender; Err breaks out of it.
LoopAfter(r) == IF r.ok THEN "receive" ELSE "stopped"

\* The channels after `if let Some(sender) = pending.remove(&id)
\* { let _ = sender.send(response); }`.
Resolve(chans, s, msg) ==
    IF s = None THEN chans
    ELSE [chans EXCEPT ![s[1]] = OneshotSend(@, msg)]

\* Caller c's sender sits in the registry.
Registered(c) == \E k \in DOMAIN pending_requests : pending_requests[k] = c

\* One turn of the loop: transport.receive::<JsonRpcResponse>().await, and
\* for a response with an i64 id the remove-and-send under the registry
\* lock.  When the loop breaks, the task drops its clones of the transport
\* and of the registry Arc; the client holds the registry too, so the map
\* and the senders in it live on.
Dispatch(r) ==
    /\ dpc = "receive"
    /\ dpc' = LoopAfter(r)
    /\ IF r.ok /\ DispatchKey(r.msg) # None
         THEN LET key == DispatchKey(r.msg)[1]
              IN /\ pending_requests' = Without(pending_requests, key)
                 /\ chan' = Resolve(chan, Removed(pending_requests, key), r.msg)
         ELSE UNCHANGED <<pending_requests, chan>>
    /\ UNCHANGED next_id
    /\ UNCHANGED callerVars
    /\ UNCHANGED transportVars

(***************************************************************************)
(* McpClient::request and the facade operations built on it                *)
(***************************************************************************)
Ops == {"list_tools", "initialize", "shutdown"}

\* Mutant of fetch_add: the counter is read but the increment is lost.
fetch_add_lost(n) == n

\* self.next_id.fetch_add(1, Ordering::SeqCst): the counter afterwards (the
\* value returned is the counter before).
fetch_add(n) == n + 1

\* Mutant of RequestResult: the check of response.error is missing.
RequestResultNoError(ch) ==
    IF ch.val = None
      THEN Err(RecvError)
      ELSE Ok(IF ch.val[1].result = None THEN "Null" ELSE ch.val[1].result[1])

\* Mutant of RequestResult: the result is looked at first, the error only
\* when there is no result.
RequestResultResultFirst(ch) ==
    IF ch.val = None
      THEN Err(RecvError)
      ELSE LET r == ch.val[1]
           IN IF r.result # None
                THEN Ok(r.result[1])
                ELSE IF r.error # None THEN Err(RpcError(r.error[1])) ELSE Ok("Null")

\* What rx.await yields and the tail of request() makes of it: a dropped
\* sender is the RecvError ("Failed to receive response from MCP server");
\* an error object in the response makes the call fail with its code and
\* message; otherwise the result is returned, Null when absent.
RequestResult(ch) ==
    IF ch.val = None
      THEN Err(RecvError)
      ELSE LET r == ch.val[1]
           IN IF r.error # None
                THEN Err(RpcError(r.error[1]))
                ELSE Ok(IF r.result = None THEN "Null" ELSE r.result[1])

\* list_tools: request(..)? and then serde_json::from_value::<ListToolsResult>.
ListToolsResult(r) ==
    IF r.tag = "Err" THEN r
    ELSE IF r.val = "vTools" THEN Ok("ListToolsResult") ELSE Err(ParseError)

\* Mutant of ShutdownResult: a failed shutdown request is returned as it is,
\* whatever close returned.
ShutdownResultRequestFirst(shutdown_result, close_res) ==
    IF shutdown_result.tag = "Err" THEN Err(shutdown_result.err) ELSE close_res

\* The end of shutdown(): the two results merged into the one it returns.
ShutdownResult(shutdown_result, close_res) ==
    IF shutdown_result.tag = "Err"
      THEN IF close_res.tag = "Err"
             THEN Err(CombinedError(shutdown_result.err, close_res.err))
             ELSE Err(shutdown_result.err)
      ELSE close_res

\* Mutant of AfterRequest: initialize goes on to its notification whatever
\* its request returned (`let _ = request(..).await;` for `.await?`).
AfterRequestNotifyAnyway(c, r) ==
    /\ req_result' = [req_result EXCEPT ![c] = Some(r)]
    /\ CASE op[c] = "list_tools" ->
              /\ out' = [out EXCEPT ![c] = Some(ListToolsResult(r))]
              /\ pc' = [pc EXCEPT ![c] = "done"]
         [] op[c] = "initialize" ->
              /\ pc' = [pc EXCEPT ![c] = "initialized"]
              /\ UNCHANGED out
         [] op[c] = "shutdown" ->
              /\ pc' = [pc EXCEPT ![c] = "exit"]
              /\ UNCHANGED out

\* What the facade operation of caller c does when its request() has
\* returned r: list_tools parses and returns; initialize returns the error
\* or goes on to the initialized notification; shutdown goes on to exit.
AfterRequest(c, r) ==
    /\ req_result' = [req_result EXCEPT ![c] = Some(r)]
    /\ CASE op[c] = "list_tools" ->
              /\ out' = [out EXCEPT ![c] = Some(ListToolsResult(r))]
              /\ pc' = [pc EXCEPT ![c] = "done"]
         [] op[c] = "initialize" ->
              IF r.tag = "Err"
                THEN /\ out' = [out EXCEPT ![c] = Some(r)]
                     /\ pc' = [pc EXCEPT ![c] = "done"]
                ELSE /\ pc' = [pc EXCEPT ![c] = "initialized"]
                     /\ UNCHANGED out
         [] op[c] = "shutdown" ->
              /\ pc' = [pc EXCEPT ![c] = "exit"]
              /\ UNCHANGED out

\* One call on the transport, as the caller saw it: the method of the message
\* sent ("request" for the request of request(), "close" for close()), and
\* whether the call returned Ok.
TransportCall(method, ok) == [method |-> method, ok |-> ok]

\* A facade operation starts and its request() allocates the id.  Tasks are
\* numbered in the order in which they get here.
RequestFetchAdd(c, o) ==
    /\ pc[c] = "idle"
    /\ \A d \in Callers : d < c => pc[d] # "idle"
    /\ op' = [op EXCEPT ![c] = o]
    /\ id' = [id EXCEPT ![c] = next_id]
    /\ next_id' = fetch_add(next_id)
    /\ pc' = [pc EXCEPT ![c] = "insert"]
    /\ UNCHANGED <<pending_requests, dpc, chan, req_result, close_result, out>>
    /\ UNCHANGED transportVars

\* oneshot::channel(), then pending.insert(id, tx) under the registry lock.
\* A sender already registered under the id is replaced and thereby dropped.
RequestInsert(c) ==
    /\ pc[c] = "insert"
    /\ pending_requests' = Insert(pending_requests, id[c], c)
    /\ chan' = [d \in Callers |->
                  IF d = c THEN NewChannel
                  ELSE IF Removed(pending_requests, id[c]) = Some(d)
                         THEN OneshotDropSender(chan[d])
                         ELSE chan[d]]
    /\ pc' = [pc EXCEPT ![c] = "send"]
    /\ UNCHANGED <<next_id, dpc, op, id, req_result, close_result, out>>
    /\ UNCHANGED transportVars

\* self.transport.send(request).await?  On Err request() returns at once,
\* which drops rx.
RequestSend(c, ok) ==
    /\ pc[c] = "send"
    /\ IF ok
         THEN /\ pc' = [pc EXCEPT ![c] = "await"]
              /\ UNCHANGED <<chan, req_result, out>>
         ELSE /\ chan' = [chan EXCEPT ![c] = OneshotDropReceiver(@)]
              /\ AfterRequest(c, Err(SendError))
    /\ UNCHANGED <<next_id, pending_requests, dpc, op, id, close_result>>
    /\ UNCHANGED transportVars

\* rx.await completes, with the response or with the RecvError.
RequestAwait(c) ==
    /\ pc[c] = "await"
    /\ chan[c].st \in {"sent", "dropped"}
    /\ chan' = [chan EXCEPT ![c] = OneshotTaken(@)]
    /\ AfterRequest(c, RequestResult(chan[c]))
    /\ UNCHANGED <<next_id, pending_requests, dpc, op, id, close_result>>
    /\ UNCHANGED transportVars

\* initialize: the notifications/initialized notification.
InitializeNotify(c, ok) ==
    /\ pc[c] = "initialized"
    /\ out' = [out EXCEPT ![c] = Some(IF ok THEN Ok("Unit") ELSE Err(SendError))]
    /\ pc' = [pc EXCEPT ![c] = "done"]
    /\ UNCHANGED <<next_id, pending_requests, dpc, op, id, chan, req_result,
                   close_result>>
    /\ UNCHANGED transportVars

\* shutdown: the exit notification; what its send returns is discarded.
ShutdownExit(c, ok) ==
    /\ pc[c] = "exit"
    /\ pc' = [pc EXCEPT ![c] = "close"]
    /\ UNCHANGED <<next_id, pending_requests, dpc, op, id, chan, req_result,
                   close_result, out>>
    /\ UNCHANGED transportVars

\* shutdown: self.transport.close().await and the merge of the two results.
ShutdownClose(c, ok) ==
    /\ pc[c] = "close"
    /\ LET close_res == IF ok THEN Ok("Unit") ELSE Err(CloseError)
       IN /\ close_result' = [close_result EXCEPT ![c] = Some(close_res)]
          /\ out' = [out EXCEPT ![c] = Some(ShutdownResult(req_result[c][1], close_res))]
    /\ pc' = [pc EXCEPT ![c] = "done"]
    /\ UNCHANGED <<next_id, pending_requests, dpc, op, id, chan, req_result>>
    /\ UNCHANGED transportVars

Receive == \E r \in ReceiveResults : Dispatch(r) /\ UNCHANGED histVars
Start == \E c \in Callers, o \in Ops : RequestFetchAdd(c, o) /\ UNCHANGED histVars
InsertStep == \E c \in Callers : RequestInsert(c) /\ UNCHANGED histVars
SendStep == \E c \in Callers, ok \in BOOLEAN : RequestSend(c, ok) /\ UNCHANGED histVars
AwaitStep == \E c \in Callers : RequestAwait(c) /\ UNCHANGED histVars
NotifyStep == \E c \in Callers, ok \in BOOLEAN : InitializeNotify(c, ok) /\ UNCHANGED histVars
ExitStep == \E c \in Callers, ok \in BOOLEAN : ShutdownExit(c, ok) /\ UNCHANGED histVars
CloseStep == \E c \in Callers, ok \in BOOLEAN : ShutdownClose(c, ok) /\ UNCHANGED histVars

Next ==
    \/ Start
    \/ InsertStep
    \/ SendStep
    \/ AwaitStep
    \/ NotifyStep
    \/ ExitStep
    \/ CloseStep
    \/ Receive

Spec == Init /\ [][Next]_vars

\* The runtime keeps scheduling every task that can take a step, and a send
\* or close on the transport returns; when the peer puts a frame on the
\* stream, and when a task starts an operation, is up to them.
FairSpec ==
    /\ Spec
    /\ \A c \in Callers :
         /\ WF_vars(RequestInsert(c) /\ UNCHANGED histVars)
         /\ WF_vars(\E ok \in BOOLEAN : RequestSend(c, ok) /\ UNCHANGED histVars)
         /\ WF_vars(RequestAwait(c) /\ UNCHANGED histVars)
         /\ WF_vars(\E ok \in BOOLEAN : InitializeNotify(c, ok) /\ UNCHANGED histVars)
         /\ WF_vars(\E ok \in BOOLEAN : ShutdownExit(c, ok) /\ UNCHANGED histVars)
         /\ WF_vars(\E ok \in BOOLEAN : ShutdownClose(c, ok) /\ UNCHANGED histVars)

\* The same steps with the history written: a call on the transport is
\* appended to the caller's calls, and what rx.await yielded is kept.
Called(c, method, ok) ==
    calls' = [calls EXCEPT ![c] = Append(@, TransportCall(method, ok))]

SendRecorded ==
    \E c \in Callers, ok \in BOOLEAN :
        RequestSend(c, ok) /\ Called(c, "request", ok) /\ UNCHANGED response
AwaitRecorded ==
    \E c \in Callers :
        RequestAwait(c) /\ response' = [response EXCEPT ![c] = chan[c].val] /\ UNCHANGED calls
NotifyRecorded ==
    \E c \in Callers, ok \in BOOLEAN :
        InitializeNotify(c, ok) /\ Called(c, "notifications/initialized", ok) /\ UNCHANGED response
ExitRecorded ==
    \E c \in Callers, ok \in BOOLEAN :
        ShutdownExit(c, ok) /\ Called(c, "exit", ok) /\ UNCHANGED response
CloseRecorded ==
    \E c \in Callers, ok \in BOOLEAN :
        ShutdownClose(c, ok) /\ Called(c, "close", ok) /\ UNCHANGED response

HistNext ==
    \/ Start
    \/ InsertStep
    \/ SendRecorded
    \/ AwaitRecorded
    \/ NotifyRecorded
    \/ ExitRecorded
    \/ CloseRecorded
    \/ Receive

HistSpec == Init /\ [][HistNext]_vars

\* The caller drops the future of its operation while request() is in
\* rx.await (a timeout or select around the call): the receiver is dropped,
\* nothing else of request() runs.
RequestAbandon(c) ==
    /\ pc[c] = "await"
    /\ chan' = [chan EXCEPT ![c] = OneshotDropReceiver(@)]
    /\ pc' = [pc EXCEPT ![c] = "abandoned"]
    /\ UNCHANGED <<next_id, pending_requests, dpc, op, id, req_result, close_result, out>>
    /\ UNCHANGED transportVars

AbandonStep == \E c \in Callers : RequestAbandon(c) /\ UNCHANGED histVars

CancelNext ==
    \/ Next
    \/ AbandonStep

\* The client with callers that may abandon their calls.
CancelSpec == Init /\ [][CancelNext]_vars

(***************************************************************************)
(* StdioTransport (src/src/transport.rs): newline-delimited JSON over the  *)
(* stdin and stdout of a child process.  Every task calls send() or        *)
(* close() once; the tasks are numbered in the order in which they start.  *)
(* The child reads its stdin when it likes and may exit on its own.  A     *)
(* write to the pipe fails once the child is gone or the write side has    *)
(* been shut down, and blocks while the pipe is full.                      *)
(***************************************************************************)
TransportOps == {"send", "close"}

\* A frame is its body and the newline that ends it.
FrameLen == BodyLen + 1

\* The k-th byte of the frame task t sends (the FrameLen-th is the newline).
Byte(t, k) == [frame |-> t, idx |-> k]

IoError == [kind |-> "io"]

\* Mutant of CanLock: the writer is not guarded by a lock.
CanLockAnyway(holder) == TRUE

\* tokio::sync::Mutex::lock().await completes only while nobody holds the
\* mutex (0 stands for nobody).
CanLock(holder) == holder = 0

\* Writes to the child's stdin fail.
PipeBroken == child # "running" \/ ~stdin_open

\* A task starts its call.
TaskStart(t, o) ==
    /\ tpc[t] = "idle"
    /\ \A u \in Tasks : u < t => tpc[u] # "idle"
    /\ top' = [top EXCEPT ![t] = o]
    /\ tpc' = [tpc EXCEPT ![t] = IF o = "send" THEN "lock" ELSE "close_writer"]
    /\ UNCHANGED <<writer, stdin, unread, stdin_open, child_lock, child, widx, tres>>
    /\ UNCHANGED clientVars

\* send: let mut writer = self.writer.lock().await;
SendLock(t) ==
    /\ tpc[t] = "lock"
    /\ CanLock(writer)
    /\ writer' = t
    /\ tpc' = [tpc EXCEPT ![t] = "write"]
    /\ UNCHANGED <<stdin, unread, stdin_open, child_lock, child, top, widx, tres>>
    /\ UNCHANGED clientVars

\* send: one write of write_all(json.as_bytes()) or of write_all(b"\n").
\* On an error `?` returns it, which drops the guard; while the pipe is full
\* the write is pending.
SendWrite(t) ==
    /\ tpc[t] = "write"
    /\ IF PipeBroken
         THEN /\ tres' = [tres EXCEPT ![t] = Some(Err(IoError))]
              /\ writer' = 0
              /\ tpc' = [tpc EXCEPT ![t] = "done"]
              /\ UNCHANGED <<stdin, unread, widx>>
         ELSE /\ unread < PipeCap
              /\ stdin' = Append(stdin, Byte(t, widx[t]))
              /\ unread' = unread + 1
              /\ widx' = [widx EXCEPT ![t] = @ + 1]
              /\ tpc' = [tpc EXCEPT ![t] = IF widx[t] = FrameLen THEN "flush" ELSE "write"]
              /\ UNCHANGED <<writer, tres>>
    /\ UNCHANGED <<stdin_open, child_lock, child, top>>
    /\ UNCHANGED clientVars

\* send: writer.flush().await?; Ok(()), and the guard is dropped.
SendFlush(t) ==
    /\ tpc[t] = "flush"
    /\ tres' = [tres EXCEPT ![t] = Some(Ok("Unit"))]
    /\ writer' = 0
    /\ tpc' = [tpc EXCEPT ![t] = "done"]
    /\ UNCHANGED <<stdin, unread, stdin_open, child_lock, child, top, widx>>
    /\ UNCHANGED clientVars

\* close: the block that locks the writer, shuts it down (whatever that
\* returns) and drops the guard.
CloseWriter(t) ==
    /\ tpc[t] = "close_writer"
    /\ CanLock(writer)
    /\ stdin_open' = FALSE
    /\ tpc' = [tpc EXCEPT ![t] = "close_child"]
    /\ UNCHANGED <<writer, stdin, unread, child_lock, child, top, widx, tres>>
    /\ UNCHANGED clientVars

\* close: let mut child = self.child.lock().await;
CloseLockChild(t) ==
    /\ tpc[t] = "close_child"
    /\ CanLock(child_lock)
    /\ child_lock' = t
    /\ tpc' = [tpc EXCEPT ![t] = "try_wait"]
    /\ UNCHANGED <<writer, stdin, unread, stdin_open, child, top, widx, tres>>
    /\ UNCHANGED clientVars

\* close: if child.try_wait()?.is_some() { return Ok(()); }  try_wait may
\* fail as long as the exit status has not been collected.
CloseTryWait(t, ok) ==
    /\ tpc[t] = "try_wait"
    /\ ~ok => child # "reaped"
    /\ IF ~ok
         THEN /\ tres' = [tres EXCEPT ![t] = Some(Err(CloseError))]
              /\ child_lock' = 0
              /\ tpc' = [tpc EXCEPT ![t] = "done"]
              /\ UNCHANGED child
         ELSE IF child # "running"
                THEN /\ child' = "reaped"
                     /\ tres' = [tres EXCEPT ![t] = Some(Ok("Unit"))]
                     /\ child_lock' = 0
                     /\ tpc' = [tpc EXCEPT ![t] = "done"]
                ELSE /\ tpc' = [tpc EXCEPT ![t] = "kill"]
                     /\ UNCHANGED <<child, tres, child_lock>>
    /\ UNCHANGED <<writer, stdin, unread, stdin_open, top, widx>>
    /\ UNCHANGED clientVars

\* close: let _ = child.kill().await; let _ = child.wait().await; Ok(())
CloseKillWait(t) ==
    /\ tpc[t] = "kill"
    /\ child' = "reaped"
    /\ tres' = [tres EXCEPT ![t] = Some(Ok("Unit"))]
    /\ child_lock' = 0
    /\ tpc' = [tpc EXCEPT ![t] = "done"]
    /\ UNCHANGED <<writer, stdin, unread, stdin_open, top, widx>>
    /\ UNCHANGED clientVars

\* The child reads one byte from its stdin.
ChildRead ==
    /\ child = "running"
    /\ unread > 0
    /\ unread' = unread - 1
    /\ UNCHANGED <<writer, stdin, stdin_open, child_lock, child, tpc, top, widx, tres>>
    /\ UNCHANGED clientVars

\* The child exits on its own.
ChildExit ==
    /\ child = "running"
    /\ child' = "exited"
    /\ UNCHANGED <<writer, stdin, unread, stdin_open, child_lock, tpc, top, widx, tres>>
    /\ UNCHANGED clientVars

TaskStartStep == \E t \in Tasks, o \in TransportOps : TaskStart(t, o)
SendLockStep == \E t \in Tasks : SendLock(t)
SendWriteStep == \E t \in Tasks : SendWrite(t)
SendFlushStep == \E t \in Tasks : SendFlush(t)
CloseWriterStep == \E t \in Tasks : CloseWriter(t)
CloseLockChildStep == \E t \in Tasks : CloseLockChild(t)
CloseTryWaitStep == \E t \in Tasks, ok \in BOOLEAN : CloseTryWait(t, ok)
CloseKillWaitStep == \E t \in Tasks : CloseKillWait(t)

TransportNext ==
    \/ TaskStartStep
    \/ SendLockStep
    \/ SendWriteStep
    \/ SendFlushStep
    \/ CloseWriterStep
    \/ CloseLockChildStep
    \/ CloseTryWaitStep
    \/ CloseKillWaitStep
    \/ ChildRead
    \/ ChildExit

TransportSpec == Init /\ [][TransportNext]_vars

\* The runtime keeps scheduling every task that can take a step; when the
\* child reads or exits, and when a task starts a call, is up to them.
FairTransportSpec ==
    /\ TransportSpec
    /\ \A t \in Tasks :
         /\ WF_vars(SendLock(t))
         /\ WF_vars(SendWrite(t))
         /\ WF_vars(SendFlush(t))
         /\ WF_vars(CloseWriter(t))
         /\ WF_vars(CloseLockChild(t))
         /\ WF_vars(\E ok \in BOOLEAN : CloseTryWait(t, ok))
         /\ WF_vars(CloseKillWait(t))

(***************************************************************************)
(* Properties                                                              *)
(***************************************************************************)

\* Caller c has a request in flight or behind it.
Started(c) == pc[c] # "idle"

\* C1: concurrent requests of one client carry pairwise distinct ids, a
\* sender is registered under the id of its own request, and a response
\* delivered to a caller bears the id of that caller's request (so it can
\* reach no caller but that one).
C1_UniqueIdsAndDelivery ==
    /\ \A c, d \in Callers :
         (c # d /\ Started(c) /\ Started(d)) => id[c] # id[d]
    /\ \A k \in DOMAIN pending_requests : id[pending_requests[k]] = k
    /\ \A c \in Callers :
         chan[c].st = "sent" => DispatchKey(chan[c].val[1]) = Some(id[c])

\* Two requests are in flight at once and both have had a response delivered.
C1_Witness ==
    \E c, d \in Callers :
        /\ c # d
        /\ pc[c] = "await" /\ chan[c].st = "sent"
        /\ pc[d] = "await" /\ chan[d].st = "sent"

\* Caller c is blocked in rx.await on a channel nobody has resolved or dropped.
Blocked(c) == pc[c] = "await" /\ chan[c].st = "open"

\* C2: when the dispatch loop stops on a receive error, each caller that was
\* blocked on its pending entry while the loop ran and still is eventually
\* returns with the failure of a dropped sender (Disconnected); none stays
\* blocked.
C2_ShutdownDrains ==
    \A c \in Callers :
        []((dpc = "receive" /\ Blocked(c)) =>
              []((dpc = "stopped" /\ Blocked(c)) =>
                    <>(req_result[c] = Some(Err(RecvError)))))

\* C3: a request that starts once the loop has stopped never inserts a
\* registry entry, never waits for a response, and fails with Disconnected.
C3_FailFastAfterStop ==
    \A c \in Callers :
        []((dpc = "stopped" /\ pc[c] = "idle") =>
              [](/\ ~Registered(c)
                 /\ pc[c] # "await"
                 /\ req_result[c] \in {None, Some(Err(RecvError))}))

\* C4: a request whose transport send failed has returned the transport
\* error with its registry entry removed: the registry holds no entry for
\* its id.
C4_SendFailureRemovesEntry ==
    \A c \in Callers :
        req_result[c] = Some(Err(SendError)) => id[c] \notin DOMAIN pending_requests

\* Caller c's request has had a response delivered to it.
Resolved(c) == chan[c].st = "sent" \/ (chan[c].st = "taken" /\ req_result[c] # Some(Err(RecvError)))

\* The response frames whose id is the i64 k, as receive returns them.
Bearing(k) ==
    [ok : {TRUE},
     msg : [id : {Some([t |-> "i64", v |-> k])},
            result : OptionOf(Values), error : OptionOf(JsonRpcError)]]

\* A step of the dispatch task that changes something (every step of a caller
\* changes its pc).
LoopTurn == pc' = pc /\ vars' # vars

\* C5: a pending entry is resolved at most once.  The entry of a resolved
\* request is gone from the registry, a delivered response is never replaced
\* by another one, and a turn of the loop on a further frame with the id of a
\* resolved request changes neither the registry nor any channel nor what any
\* caller has got.
C5_NoDoubleResolution ==
    [][/\ \A c \in Callers :
            /\ (Resolved(c) => ~Registered(c))'
            /\ chan[c].st = "sent" => chan'[c].val \in {chan[c].val, None}
       /\ LoopTurn =>
            \A c \in Callers :
                Resolved(c) =>
                    \A r \in Bearing(id[c]) :
                        Dispatch(r) =>
                            UNCHANGED <<pending_requests, chan, req_result, out>>]_vars

\* A response has been delivered to a caller that has not yet taken it, and
\* the loop is running: a second frame with that id may arrive now.
C5_Witness ==
    \E c \in Callers :
        /\ dpc = "receive"
        /\ pc[c] = "await" /\ chan[c].st = "sent"
        /\ id[c] \notin DOMAIN pending_requests

\* Caller c has an unresolved entry in the registry under the id of its request.
Pending(c) ==
    /\ id[c] \in DOMAIN pending_requests
    /\ pending_requests[id[c]] = c
    /\ chan[c].st = "open"

\* C6: responses are matched by id, not by order.  With two requests pending,
\* whichever was sent first, the frame that bears the id of one of them is
\* delivered to that one's caller and leaves the other pending; so the
\* responses reach the right callers in every order of arrival.
C6_OrderIndependence ==
    [][LoopTurn =>
         \A a, b \in Callers :
             (a # b /\ Pending(a) /\ Pending(b)) =>
                 \A r \in Bearing(id[b]) :
                     Dispatch(r) =>
                         /\ chan'[b] = [st |-> "sent", val |-> Some(r.msg)]
                         /\ chan'[a] = chan[a]
                         /\ id[a] \in DOMAIN pending_requests'
                         /\ pending_requests'[id[a]] = a]_vars

\* The request with the later id has its response while the one with the
\* earlier id, sent as well, still waits for its own.
C6_Witness ==
    \E a, b \in Callers :
        /\ id[a] < id[b]
        /\ pc[a] = "await" /\ Pending(a)
        /\ pc[b] = "await" /\ chan[b].st = "sent"
        /\ DispatchKey(chan[b].val[1]) = Some(id[b])

\* A response that finds no sender: it has no i64 id, or no entry is
\* registered under it.
Unmatched(r) ==
    \/ DispatchKey(r.msg) = None
    \/ DispatchKey(r.msg)[1] \notin DOMAIN pending_requests

\* C7: a turn of the loop on a response whose id has no registry entry leaves
\* the registry and every channel as they are, gives no caller anything, and
\* leaves the loop running, ready to receive the next frame.
C7_UnmatchedFrameTolerance ==
    [][LoopTurn =>
         \A r \in ReceiveResults :
             (r.ok /\ Unmatched(r) /\ Dispatch(r)) =>
                 /\ UNCHANGED <<pending_requests, chan, pc, req_result, out>>
                 /\ dpc' = "receive"]_vars

\* The loop runs, one caller waits on its pending entry, and the id of a
\* finished request is no longer registered: a late frame for that id is
\* unmatched here, and the turn that discards it ends in this same state.
C7_Witness ==
    \E c, d \in Callers :
        /\ dpc = "receive"
        /\ pc[c] = "await" /\ Pending(c)
        /\ pc[d] = "done" /\ id[d] \notin DOMAIN pending_requests

\* C8: a response with an error object for a pending id takes the entry out
\* of the registry, and the caller's request then fails with an error that
\* carries the code and the message of that object.
C8_ErrorResponse ==
    [][/\ LoopTurn =>
            \A c \in Callers :
                Pending(c) =>
                    \A r \in Bearing(id[c]) :
                        (r.msg.error # None /\ Dispatch(r)) =>
                            id[c] \notin DOMAIN pending_requests'
       /\ \A c \in Callers :
            (pc[c] = "await" /\ pc'[c] # "await" /\ chan[c].val # None) =>
                LET m == chan[c].val[1]
                IN m.error # None =>
                     req_result'[c] =
                         Some([tag |-> "Err",
                               err |-> [kind |-> "rpc", code |-> m.error[1].code,
                                        message |-> m.error[1].message]])]_vars

\* A request has failed with the peer's error -32601 and its id is out of the
\* registry.
C8_Witness ==
    \E c \in Callers :
        /\ req_result[c] # None
        /\ req_result[c][1].tag = "Err"
        /\ req_result[c][1].err.kind = "rpc"
        /\ req_result[c][1].err.code = -32601
        /\ id[c] \notin DOMAIN pending_requests

\* C9: what shutdown returns is decided by its shutdown request and by
\* transport close: both failed, one error naming both failures; only the
\* request failed, the request's error; only close failed, the close error;
\* neither failed, success.
C9_ShutdownResult ==
    \A c \in Callers :
        (op[c] = "shutdown" /\ pc[c] = "done") =>
            LET s == req_result[c][1]
                cl == close_result[c][1]
                o == out[c][1]
            IN /\ (s.tag = "Err" /\ cl.tag = "Err") =>
                     /\ o.tag = "Err"
                     /\ o.err.kind = "combined"
                     /\ o.err.request = s.err
                     /\ o.err.close = cl.err
               /\ (s.tag = "Err" /\ cl.tag = "Ok") => o = [tag |-> "Err", err |-> s.err]
               /\ (s.tag = "Ok" /\ cl.tag = "Err") => o = cl
               /\ (s.tag = "Ok" /\ cl.tag = "Ok") => o.tag = "Ok"

\* A shutdown has returned after both its request and close failed.
C9_Witness ==
    \E c \in Callers :
        /\ op[c] = "shutdown" /\ pc[c] = "done"
        /\ req_result[c][1].tag = "Err"
        /\ close_result[c][1].tag = "Err"

\* C10: every shutdown that has started eventually calls transport close,
\* also when its request fails to send, is answered with an error, or gets
\* no response.
C10_ShutdownAlwaysCloses ==
    \A c \in Callers :
        (op[c] = "shutdown" /\ Started(c)) ~> (close_result[c] # None)

\* The methods of the calls caller c has made on the transport, in order.
Methods(c) == [i \in 1..Len(calls[c]) |-> calls[c][i].method]

\* s is an initial part of t.
IsPrefix(s, t) == Len(s) <= Len(t) /\ \A i \in 1..Len(s) : s[i] = t[i]

\* C11: the calls an operation makes on the transport keep the protocol
\* order.  initialize sends its request and then notifications/initialized,
\* the latter only when the request was sent, a response without an error
\* object was delivered to it and request() returned Ok; shutdown sends its
\* request, then exit, then calls close, in this order.
C11_ProtocolOrder ==
    \A c \in Callers :
        /\ op[c] = "initialize" =>
              /\ IsPrefix(Methods(c), <<"request", "notifications/initialized">>)
              /\ Len(calls[c]) = 2 =>
                    /\ calls[c][1].ok
                    /\ response[c] # None /\ response[c][1].error = None
                    /\ req_result[c] # None /\ req_result[c][1].tag = "Ok"
        /\ op[c] = "shutdown" =>
              IsPrefix(Methods(c), <<"request", "exit", "close">>)

\* An initialize has sent its notification and a shutdown has gone through
\* its three calls.
C11_Witness ==
    \E c, d \in Callers :
        /\ op[c] = "initialize" /\ Len(calls[c]) = 2
        /\ op[d] = "shutdown" /\ Len(calls[d]) = 3

\* The response rx.await yielded to caller c carries neither a result nor an
\* error object.
EmptyResponse(c) ==
    response[c] # None /\ response[c][1].result = None /\ response[c][1].error = None

\* C12: a request whose response carries neither a result nor an error has
\* failed (with a ProtocolError); request() has not returned Ok for it.
C12_EmptyResponseFails ==
    \A c \in Callers :
        EmptyResponse(c) => req_result[c] # None /\ req_result[c][1].tag = "Err"

\* A send on the transport made by caller c returned Err.
SendFailed(c) ==
    \E i \in 1..Len(calls[c]) : calls[c][i].method # "close" /\ ~calls[c][i].ok

\* C13: an operation during which a transport send failed, be it the send
\* of its request or of its notification (notifications/initialized, exit),
\* has returned an error.
C13_SendFailureSurfaces ==
    \A c \in Callers :
        (pc[c] = "done" /\ SendFailed(c)) => out[c] # None /\ out[c][1].tag = "Err"

\* C14: the bytes on the child's stdin are whole frames one after another,
\* followed at most by the beginning of one more: a byte that starts a frame
\* comes first or right after the newline of the frame before it, and every
\* other byte comes right after the byte before it in its own frame.  So no
\* byte of a frame lies between two bytes of another.
C14_FramesNotInterleaved ==
    \A i \in 1..Len(stdin) :
        IF stdin[i].idx = 1
          THEN i = 1 \/ stdin[i - 1].idx = FrameLen
          ELSE i > 1 /\ stdin[i - 1] = Byte(stdin[i].frame, stdin[i].idx - 1)

\* Two tasks have called send(): the frame of one, which has returned Ok, is
\* followed on stdin by bytes of the other.
C14_Witness ==
    \E t, u \in Tasks :
        /\ t # u
        /\ tpc[t] = "done" /\ tres[t] = Some(Ok("Unit")) /\ top[t] = "send"
        /\ top[u] = "send" /\ widx[u] > 1
        /\ \E i \in 1..(Len(stdin) - 1) : stdin[i].frame = t /\ stdin[i + 1].frame = u

\* Some close() has returned Ok.
Closed == \E u \in Tasks : top[u] = "close" /\ tres[u] = Some(Ok("Unit"))

\* C15: close is idempotent and terminates.  Once a close has returned Ok, a
\* step of any further close changes nothing of the pipe and the child, and
\* that close returns Ok; and every close that is called returns, whatever
\* the senders and the child do.
C15_CloseIdempotentAndTerminates ==
    /\ [][\A t \in Tasks :
            (Closed /\ top[t] = "close" /\ tpc'[t] # tpc[t]) =>
                /\ UNCHANGED <<stdin, unread, stdin_open, child>>
                /\ tres'[t] \in {None, Some(Ok("Unit"))}]_vars
    /\ \A t \in Tasks : (top[t] = "close") ~> (tres[t] # None)

\* Caller c's request is being sent or has been sent, and no response has
\* been delivered to it yet.
Unanswered(c) == pc[c] \in {"send", "await"} /\ chan[c].st = "open"

\* C16: from the moment the transport send of a request begins, its sender
\* is in the registry under the request's id until a response is delivered
\* to it; a response with that id that the loop receives at any such moment,
\* the send still under way or over, is delivered to the caller.
C16_InsertBeforeSend ==
    [][/\ \A c \in Callers : (Unanswered(c) => Pending(c))'
       /\ LoopTurn =>
            \A c \in Callers :
                Unanswered(c) =>
                    \A r \in Bearing(id[c]) :
                        Dispatch(r) => chan'[c] = [st |-> "sent", val |-> Some(r.msg)]]_vars

\* The response has been delivered to a caller whose send has not returned yet.
C16_Witness ==
    \E c \in Callers :
        /\ pc[c] = "send" /\ chan[c].st = "sent"
        /\ DispatchKey(chan[c].val[1]) = Some(id[c])

\* C17: the registry holds every sender under one id only and no more
\* entries than ids have been allocated; and the step that resolves a
\* caller's channel takes its sender out of the registry: the sender was
\* registered under the request's id before the step, and after it the
\* registry does not contain that id.
C17_RemoveBeforeResolve ==
    [][/\ (\A j, k \in DOMAIN pending_requests :
              pending_requests[j] = pending_requests[k] => j = k)'
       /\ (Cardinality(DOMAIN pending_requests) <= next_id - FirstId)'
       /\ \A c \in Callers :
            (chan[c].st = "open" /\ chan'[c].st = "sent") =>
                /\ id[c] \in DOMAIN pending_requests
                /\ pending_requests[id[c]] = c
                /\ id[c] \notin DOMAIN pending_requests']_vars

\* One request has just been resolved, its id is out of the registry, and
\* the entry of another request is still there.
C17_Witness ==
    \E c, d \in Callers :
        /\ chan[c].st = "sent" /\ id[c] \notin DOMAIN pending_requests
        /\ DOMAIN pending_requests = {id[d]} /\ pending_requests[id[d]] = d

\* What receive returns for a line that is not a JsonRpcResponse.
MalformedFrame == [ok |-> FALSE, err |-> "parse"]

\* C18: a frame that fails to decode ends the dispatch loop, and an ended
\* loop receives and dispatches nothing more.  In no state can a turn on a
\* malformed frame leave the loop running; and once the loop has stopped, no
\* step receives a frame, resolves a channel, takes an entry out of the
\* registry or sets the loop going again, whatever responses the peer has
\* sent after the malformed frame.
C18_MalformedFrameStopsLoop ==
    /\ ~ENABLED (Dispatch(MalformedFrame) /\ dpc' # "stopped")
    /\ dpc = "stopped" =>
          /\ ~ENABLED Receive
          /\ ~ENABLED (Next /\ dpc' # "stopped")
          /\ ~ENABLED (Next /\ \E c \in Callers : chan[c].st = "open" /\ chan'[c].st = "sent")
          /\ ~ENABLED (Next /\ \E k \in DOMAIN pending_requests : k \notin DOMAIN pending_requests')

\* The loop has stopped while a caller waits on its pending entry: a
\* well-formed response for its id may follow on the transport.
C18_Witness ==
    \E c \in Callers : dpc = "stopped" /\ pc[c] = "await" /\ Pending(c)

\* C19: abandoning the await leaves the registry as it is; the entry of an
\* abandoned request leaves the registry only in a turn of the loop on a
\* response with its id, and every such turn takes it out; that turn
\* delivers nothing, leaves every other entry, every channel and every
\* caller as they are, and leaves the loop running.
C19_AbandonedEntry ==
    [][\A c \in Callers :
          /\ (pc[c] = "await" /\ pc'[c] = "abandoned") =>
                UNCHANGED pending_requests
          /\ (pc[c] = "abandoned" /\ id[c] \in DOMAIN pending_requests) =>
                /\ id[c] \notin DOMAIN pending_requests' =>
                      /\ \E r \in Bearing(id[c]) : Dispatch(r)
                      /\ pending_requests' = Without(pending_requests, id[c])
                      /\ UNCHANGED <<chan, pc, req_result, out>>
                      /\ dpc' = "receive"
                /\ LoopTurn =>
                      \A r \in Bearing(id[c]) :
                          Dispatch(r) => id[c] \notin DOMAIN pending_requests']_vars

\* A caller has abandoned its request, whose entry is still registered; the
\* loop runs and another caller waits on its own entry.
C19_Witness ==
    \E c, d \in Callers :
        /\ pc[c] = "abandoned" /\ id[c] \in DOMAIN pending_requests
        /\ pending_requests[id[c]] = c /\ chan[c].st = "rx_dropped"
        /\ dpc = "receive"
        /\ pc[d] = "await" /\ Pending(d)

\* C20: a request whose response carries both a result and an error has
\* failed with that error's code and message; and a request that returned
\* Ok had a response without an error object and returned that response's
\* result (Null when it had none).
C20_ErrorWinsOverResult ==
    \A c \in Callers :
        response[c] # None =>
            LET m == response[c][1]
                res == req_result[c][1]
            IN /\ req_result[c] # None
               /\ (m.result # None /\ m.error # None) =>
                     res = [tag |-> "Err",
                            err |-> [kind |-> "rpc", code |-> m.error[1].code,
                                     message |-> m.error[1].message]]
               /\ res.tag = "Ok" =>
                     /\ m.error = None
                     /\ res.val = IF m.result = None THEN "Null" ELSE m.result[1]

\* A request has got a response with both a result and an error, and has
\* failed.
C20_Witness ==
    \E c \in Callers :
        /\ response[c] # None
        /\ response[c][1].result # None /\ response[c][1].error # None
        /\ req_result[c] # None /\ req_result[c][1].tag = "Err"

====
